---- MODULE Spec2Model ----
(***************************************************************************)
(* The chat session controller and audio capture adapter of                *)
(* src/components/ChatInterface.tsx, its earlier variant                   *)
(* src/unnamed/part_000, and the analytics view of src/app/page.tsx, as    *)
(* state machines over the browser's event loop.                           *)
(*                                                                         *)
(* One action is one task of the event loop: a UI event handler, a timer   *)
(* callback, or the resumption of an async function when the promise it    *)
(* awaits settles.  Continuations that the platform schedules as           *)
(* microtasks (the rejection of an aborted fetch) sit in `microtasks` and   *)
(* run before any other task.                                              *)
(*                                                                         *)
(* Text is a sequence of one-character strings, so that trim() and the     *)
(* truthiness test of a string are computed rather than assumed.           *)
(***************************************************************************)
EXTENDS Integers, Sequences, FiniteSets, TLC

VARIABLES
    \* ---- ChatInterface.tsx: React state and refs
    messages,            \* useState<Message[]>            (line 43)
    input,               \* useState("")                   (line 44)
    isProcessing,        \* useState(false)                (line 45)
    isRecording,         \* useState(false)                (line 46)
    lastMessageRef,      \* useRef<string | null>(null)    (line 49): <<>> is null, <<s>> is s
    mediaRecorderRef,    \* useRef<MediaRecorder | null>   (line 50): 0 is null, else a recorder id
    audioChunksRef,      \* useRef<Blob[]>([])             (line 51)
    abortControllerRef,  \* useRef<AbortController | null> (line 52): 0 is null, else a request id
    \* ---- the platform objects the component created
    reqs,                \* text fetches, by request id: "pending", "aborted" (its call not
                         \* yet resumed), "settled" (its call has finished)
    microtasks,          \* request ids whose rejected fetch has its continuation queued
    acquiring,           \* getUserMedia() calls not yet settled
    recorders,           \* MediaRecorders, by id: "recording" | "stopping" | "inactive"
    audioReqs,           \* audio fetches, by id: [status, payload, by]
    \* ---- history (not read by the program)
    origin,              \* origin[i]: what appended messages[i]
    delivered,           \* every non-empty reply handed to the controller, in order
    submitted,           \* the input of every accepted send, in order
    stopped,             \* text requests that were pending when a cancel took effect
    lastStop,            \* what the latest stopGeneration call found and did (<<>>: none yet)
    cancelledRecs,       \* recorders on which cancelRecording acted
    captured,            \* recorders that handed a non-empty Blob to ondataavailable
    polls,               \* polls answered so far with an ok response and a parseable body
    pollFailures,        \* polls that failed so far
    alerts,              \* alert() calls so far (line 93)
    \* ---- app/page.tsx: AnalyticsPage
    data,                \* useState<AnalyticsData | null>(null)  (line 57): <<>> is null
    loading,             \* useState(true)                        (line 58)
    error,               \* useState("")                          (line 59)
    fetching,            \* fetch(ANALYTICS_API_URL) calls not yet settled
    mounted,             \* the mount effect (line 77) has run
    fetchLog,            \* history: the outcome of every settled fetch
    result               \* the value computed by the derivation under test

vars == <<messages, input, isProcessing, isRecording, lastMessageRef, mediaRecorderRef,
          audioChunksRef, abortControllerRef, reqs, microtasks, acquiring, recorders,
          audioReqs, origin, delivered, submitted, stopped, lastStop, cancelledRecs, captured,
          polls, pollFailures, alerts, data, loading, error, fetching, mounted, fetchLog, result>>

chatVars == <<messages, input, isProcessing, isRecording, lastMessageRef, mediaRecorderRef,
              audioChunksRef, abortControllerRef, reqs, microtasks, acquiring, recorders,
              audioReqs, origin, delivered, submitted, stopped, lastStop, cancelledRecs,
              captured, polls, pollFailures, alerts>>

analyticsVars == <<data, loading, error, fetching, mounted, fetchLog, result>>

----------------------------------------------------------------------------
\* Bounds of the model

MaxSends == 2
MaxPolls == 2
MaxRecs == 2
MaxFetches == 4
MaxHours == 3
MaxCount == 2
MaxStarted == 3
MaxTools == 3

----------------------------------------------------------------------------
\* Values

\* What the user can have in the input box: empty, whitespace only, and two texts
\* (one with trailing whitespace, which the controller must keep as typed).
Texts == { <<>>, <<" ">>, <<"a">>, <<"b", " ">> }

\* Reply texts of the remote collaborator; <<>> is the empty string.
Replies == { <<"A">>, <<"B">> }

\* The parsed JSON bodies that carry one of the reply texts R or none: a bare
\* string, or an object whose output may be missing (undefined, falsy like the
\* empty string).
RemoteDataOf(R) ==
    [kind : {"string"}, value : R \cup {<<>>}]
        \cup [kind : {"object"}, output : R \cup {<<>>}]

RemoteData == RemoteDataOf(Replies)

\* The size of the Blob a recorder hands to ondataavailable.
BlobSizes == {0, 1}

AudioMessageText == <<"Audio Message">>

----------------------------------------------------------------------------
\* String.prototype.trim

RECURSIVE TrimStart(_)
TrimStart(s) ==
    IF s # <<>> /\ Head(s) = " " THEN TrimStart(Tail(s)) ELSE s

RECURSIVE TrimEnd(_)
TrimEnd(s) ==
    IF s # <<>> /\ s[Len(s)] = " " THEN TrimEnd(SubSeq(s, 1, Len(s) - 1)) ELSE s

\* trim as it would be if it removed nothing.
TrimNone(s) == s

Trim(s) == TrimEnd(TrimStart(s))

\* typeof data === "string" ? data : data.output
aiResponseOf(d) ==
    IF d.kind = "string" THEN d.value ELSE d.output

\* data && data.output, as pollForUpdates reads it: a bare string has no output
pollOutputOf(d) ==
    IF d.kind = "object" THEN d.output ELSE <<>>

----------------------------------------------------------------------------
\* The conversation state addAiMessage works on

Chat ==
    [messages |-> messages, lastMessageRef |-> lastMessageRef, isProcessing |-> isProcessing]

TextMessage(role, content) ==
    [role |-> role, content |-> content, type |-> "text", audioUrl |-> <<>>]

AudioMessage(blob) ==
    [role |-> "user", content |-> AudioMessageText, type |-> "audio", audioUrl |-> blob]

\* addAiMessage as it would be without the comparison with the last-seen reply.
addAiMessageNoDedup(c, content) ==
    IF content = <<>> THEN c
    ELSE [messages |-> Append(c.messages, TextMessage("ai", content)),
          lastMessageRef |-> <<content>>,
          isProcessing |-> FALSE]

\* addAiMessage as it would be if it suppressed a reply equal to any earlier
\* reply, not only to the last one.
addAiMessageSetDedup(c, content) ==
    IF content = <<>> THEN c
    ELSE IF \E i \in 1..Len(c.messages) :
                c.messages[i].role = "ai" /\ c.messages[i].content = content
         THEN c
         ELSE [messages |-> Append(c.messages, TextMessage("ai", content)),
               lastMessageRef |-> <<content>>,
               isProcessing |-> FALSE]

\* addAiMessage as it would be if it put the reply in front of the log.
addAiMessageInFront(c, content) ==
    IF content = <<>> THEN c
    ELSE IF c.lastMessageRef = <<content>> THEN c
    ELSE [messages |-> <<TextMessage("ai", content)>> \o c.messages,
          lastMessageRef |-> <<content>>,
          isProcessing |-> FALSE]

\* addAiMessage as it would be without its setIsProcessing(false).
addAiMessageKeepsProcessing(c, content) ==
    IF content = <<>> THEN c
    ELSE IF c.lastMessageRef = <<content>> THEN c
    ELSE [messages |-> Append(c.messages, TextMessage("ai", content)),
          lastMessageRef |-> <<content>>,
          isProcessing |-> c.isProcessing]

\* addAiMessage as it would be without its write to lastMessageRef.
addAiMessageForgets(c, content) ==
    IF content = <<>> THEN c
    ELSE IF c.lastMessageRef = <<content>> THEN c
    ELSE [messages |-> Append(c.messages, TextMessage("ai", content)),
          lastMessageRef |-> c.lastMessageRef,
          isProcessing |-> FALSE]

addAiMessage(c, content) ==
    IF content = <<>> THEN c
    ELSE IF c.lastMessageRef = <<content>> THEN c
    ELSE [messages |-> Append(c.messages, TextMessage("ai", content)),
          lastMessageRef |-> <<content>>,
          isProcessing |-> FALSE]

\* The state update as it would be if it put the user Message in front of the log.
appendUserMessagePrepend(prev, userMsg) == <<userMsg>> \o prev

\* setMessages((prev) => [...prev, userMsg])
appendUserMessage(prev, userMsg) == Append(prev, userMsg)

\* `if (aiResponse) addAiMessage(aiResponse)` followed, when `fin`, by the
\* `finally { setIsProcessing(false) }` of the caller; `who` names the caller.
Deliver(content, who, fin) ==
    LET c1 == IF content # <<>> THEN addAiMessage(Chat, content) ELSE Chat
        appended == Len(c1.messages) > Len(messages)
    IN  /\ messages' = c1.messages
        /\ lastMessageRef' = c1.lastMessageRef
        /\ isProcessing' = IF fin THEN FALSE ELSE c1.isProcessing
        /\ origin' = IF appended THEN Append(origin, who) ELSE origin
        /\ delivered' =
              IF content # <<>>
              THEN Append(delivered,
                          [content |-> content,
                           via |-> who.by,
                           at |-> IF appended THEN Len(c1.messages) ELSE 0])
              ELSE delivered

----------------------------------------------------------------------------
\* Helpers on the platform objects

Ids(seq) == 1..Len(seq)

PendingText == { i \in Ids(reqs) : reqs[i] = "pending" }

PendingAudio == { q \in Ids(audioReqs) : audioReqs[q].status = "pending" }

\* No microtask is queued: the event loop may run the next task.
Idle == microtasks = <<>>

recUnchanged == UNCHANGED <<isRecording, mediaRecorderRef, audioChunksRef, acquiring,
                            recorders, audioReqs, cancelledRecs, captured, alerts>>

analyticsUnchanged == UNCHANGED analyticsVars

----------------------------------------------------------------------------
\* 2. TEXT LOGIC

\* sendMessage as it would be if a send forgot the last-seen reply.
sendMessageResetsLastSeen(t) ==
    /\ Idle
    /\ ~isRecording
    /\ IF Trim(t) = <<>>
       THEN /\ input' = t
            /\ UNCHANGED <<messages, isProcessing, lastMessageRef, abortControllerRef,
                           reqs, origin, submitted>>
       ELSE /\ Len(reqs) < MaxSends
            /\ reqs' = Append(reqs, "pending")
            /\ abortControllerRef' = Len(reqs) + 1
            /\ messages' = appendUserMessage(messages, TextMessage("user", t))
            /\ origin' = Append(origin, [by |-> "send", id |-> Len(reqs) + 1])
            /\ submitted' = Append(submitted, t)
            /\ input' = <<>>
            /\ isProcessing' = TRUE
            /\ lastMessageRef' = <<>>
    /\ UNCHANGED <<microtasks, delivered, stopped, lastStop, polls, pollFailures>>
    /\ recUnchanged
    /\ analyticsUnchanged

\* The user types `t` into the input box (onChange, line 377) and then calls
\* sendMessage, by Enter in the box (378) or by the send button (400); box and
\* button are absent or disabled while recording (382, 389).  Typing changes
\* nothing but `input`, which only sendMessage reads, so the keystrokes and the
\* call are one step.  sendMessage runs up to its first await (lines 144-162).
sendMessage(t) ==
    /\ Idle
    /\ ~isRecording
    /\ IF Trim(t) = <<>>
       THEN /\ input' = t
            /\ UNCHANGED <<messages, isProcessing, lastMessageRef, abortControllerRef,
                           reqs, microtasks, origin, delivered, submitted, stopped,
                           lastStop, polls, pollFailures>>
       ELSE /\ Len(reqs) < MaxSends
            /\ reqs' = Append(reqs, "pending")
            /\ abortControllerRef' = Len(reqs) + 1
            /\ messages' = appendUserMessage(messages, TextMessage("user", t))
            /\ origin' = Append(origin, [by |-> "send", id |-> Len(reqs) + 1])
            /\ submitted' = Append(submitted, t)
            /\ input' = <<>>
            /\ isProcessing' = TRUE
            /\ UNCHANGED <<lastMessageRef, microtasks, delivered, stopped, lastStop, polls, pollFailures>>
    /\ recUnchanged
    /\ analyticsUnchanged

\* The text fetch resolved with a response of status `ok` (2xx) or not, and its
\* body parsed (lines 163-165), then finally (172-175).  The code never reads
\* response.ok or response.status: any parseable body is looked at for a reply.
sendMessageResolved(id, ok, d) ==
    /\ Idle
    /\ reqs[id] = "pending"
    /\ Deliver(aiResponseOf(d), [by |-> "reply", id |-> id], TRUE)
    /\ abortControllerRef' = 0
    /\ reqs' = [reqs EXCEPT ![id] = "settled"]
    /\ UNCHANGED <<input, microtasks, submitted, stopped, lastStop, polls, pollFailures>>
    /\ recUnchanged
    /\ analyticsUnchanged

\* The text fetch or response.json() threw something other than an abort
\* (lines 166-171), then finally (172-175).
sendMessageFailed(id) ==
    /\ Idle
    /\ reqs[id] = "pending"
    /\ isProcessing' = FALSE
    /\ abortControllerRef' = 0
    /\ reqs' = [reqs EXCEPT ![id] = "settled"]
    /\ UNCHANGED <<messages, input, lastMessageRef, microtasks, origin, delivered,
                   submitted, stopped, lastStop, polls, pollFailures>>
    /\ recUnchanged
    /\ analyticsUnchanged

\* AbortController.abort() on the controller the handle holds: the pending fetch
\* rejects with AbortError.
abort(rs, h) ==
    IF h \in Ids(rs) /\ rs[h] = "pending" THEN [rs EXCEPT ![h] = "aborted"] ELSE rs

\* Where a sendMessage call can be waiting when its request is aborted: at
\* `await fetch(...)` (line 157), whose promise abort() rejects at once, so the
\* call resumes in a microtask of the aborting task; or at `await
\* response.json()` (line 163), where the reading of the body fails and the
\* rejection is delivered by a task queued on the event loop, so the call resumes
\* in a later task and other tasks may run first.
Awaits == {"fetch", "json"}

\* stopGeneration (lines 178-183); its button exists only while isProcessing (312).
\* `at` is where the call that owns the controller in the handle is waiting.
stopGeneration(at) ==
    /\ Idle
    /\ isProcessing
    /\ IF abortControllerRef # 0
       THEN /\ reqs' = abort(reqs, abortControllerRef)
            /\ microtasks' = IF reqs' # reqs /\ at = "fetch"
                              THEN <<abortControllerRef>>
                              ELSE <<>>
            /\ isProcessing' = FALSE
            /\ stopped' = stopped \cup PendingText
       ELSE UNCHANGED <<reqs, microtasks, isProcessing, stopped>>
    /\ lastStop' = <<[pending |-> PendingText,
                      aborted |-> { i \in Ids(reqs') : reqs'[i] = "aborted" },
                      processing |-> isProcessing']>>
    /\ UNCHANGED <<messages, input, lastMessageRef, abortControllerRef, origin,
                   delivered, submitted, polls, pollFailures>>
    /\ recUnchanged
    /\ analyticsUnchanged

\* The rest of an aborted sendMessage call: catch AbortError (167-168), finally (172-175).
abortedContinuation(id) ==
    /\ reqs' = [reqs EXCEPT ![id] = "settled"]
    /\ isProcessing' = FALSE
    /\ abortControllerRef' = 0
    /\ UNCHANGED <<messages, input, lastMessageRef, origin, delivered, submitted,
                   stopped, lastStop, polls, pollFailures>>
    /\ recUnchanged
    /\ analyticsUnchanged

\* The continuation of a call aborted at `await fetch`: the queued microtask.
sendMessageAborted ==
    /\ microtasks # <<>>
    /\ microtasks' = Tail(microtasks)
    /\ abortedContinuation(Head(microtasks))

\* The continuation of a call aborted at `await response.json()`: a task.
sendMessageAbortedLater(id) ==
    /\ Idle
    /\ reqs[id] = "aborted"
    /\ UNCHANGED microtasks
    /\ abortedContinuation(id)

----------------------------------------------------------------------------
\* 3. POLL

\* pollForUpdates got an ok response with a parseable body (lines 194-197).
pollForUpdates(d) ==
    /\ Idle
    /\ polls + pollFailures < MaxPolls
    /\ polls' = polls + 1
    /\ Deliver(pollOutputOf(d), [by |-> "poll", id |-> polls + pollFailures + 1], FALSE)
    /\ UNCHANGED <<input, abortControllerRef, reqs, microtasks, submitted, stopped, lastStop,
                   pollFailures>>
    /\ recUnchanged
    /\ analyticsUnchanged

\* A failed poll as it would be if it put an error Message into the log.
surfacedFail(c) ==
    [c EXCEPT !.messages = Append(c.messages, TextMessage("ai", <<"Error">>)),
              !.isProcessing = FALSE]

\* What a failed poll does to the conversation: `if (!response.ok) return`
\* (line 195) and `catch (e) { /* Silent fail */ }` (198-200) touch nothing.
silentFail(c) == c

\* pollForUpdates got a non-ok response (195), or fetch or json() threw (198-200).
pollForUpdatesFailed ==
    /\ Idle
    /\ polls + pollFailures < MaxPolls
    /\ pollFailures' = pollFailures + 1
    /\ LET c1 == silentFail(Chat)
       IN  /\ messages' = c1.messages
           /\ lastMessageRef' = c1.lastMessageRef
           /\ isProcessing' = c1.isProcessing
           /\ origin' = IF Len(c1.messages) > Len(messages)
                        THEN Append(origin, [by |-> "pollerror", id |-> polls + pollFailures + 1])
                        ELSE origin
    /\ UNCHANGED <<input, abortControllerRef, reqs, microtasks, delivered, submitted,
                   stopped, lastStop, polls>>
    /\ recUnchanged
    /\ analyticsUnchanged

----------------------------------------------------------------------------
\* 1. RECORDING LOGIC

textUnchanged == UNCHANGED <<input, abortControllerRef, reqs, microtasks, submitted,
                             stopped, lastStop, polls, pollFailures>>

capturedUnchanged == UNCHANGED captured

alertsUnchanged == UNCHANGED alerts

\* startRecording up to `await getUserMedia` (lines 56-58); the microphone button
\* is there whenever isRecording is false (353-373), also while an earlier call
\* is still waiting for its stream.
startRecording ==
    /\ Idle
    /\ ~isRecording
    /\ acquiring + Len(recorders) + alerts < MaxRecs
    /\ acquiring' = acquiring + 1
    /\ UNCHANGED <<messages, isProcessing, lastMessageRef, origin, delivered,
                   isRecording, mediaRecorderRef, audioChunksRef, recorders, audioReqs,
                   cancelledRecs>>
    /\ capturedUnchanged
    /\ alertsUnchanged
    /\ textUnchanged
    /\ analyticsUnchanged

\* getUserMedia resolved: the rest of startRecording (lines 59-90).
startRecordingAcquired ==
    /\ Idle
    /\ acquiring > 0
    /\ acquiring' = acquiring - 1
    /\ recorders' = Append(recorders, "recording")
    /\ mediaRecorderRef' = Len(recorders) + 1
    /\ audioChunksRef' = <<>>
    /\ isRecording' = TRUE
    /\ UNCHANGED <<messages, isProcessing, lastMessageRef, origin, delivered, audioReqs,
                   cancelledRecs>>
    /\ capturedUnchanged
    /\ alertsUnchanged
    /\ textUnchanged
    /\ analyticsUnchanged

\* The catch of startRecording as it would be if the recorder reference and the
\* chunk buffer were reset before the stream is awaited.
startRecordingDeniedResets ==
    /\ Idle
    /\ acquiring > 0
    /\ acquiring' = acquiring - 1
    /\ mediaRecorderRef' = 0
    /\ audioChunksRef' = <<>>
    /\ alerts' = alerts + 1
    /\ UNCHANGED <<messages, isProcessing, lastMessageRef, origin, delivered,
                   isRecording, recorders, audioReqs, cancelledRecs>>
    /\ capturedUnchanged
    /\ textUnchanged
    /\ analyticsUnchanged

\* getUserMedia rejected: the catch of startRecording (lines 91-94) reports the
\* failure with console.error and alert().
startRecordingDenied ==
    /\ Idle
    /\ acquiring > 0
    /\ acquiring' = acquiring - 1
    /\ UNCHANGED <<messages, isProcessing, lastMessageRef, origin, delivered,
                   isRecording, mediaRecorderRef, audioChunksRef, recorders, audioReqs,
                   cancelledRecs>>
    /\ capturedUnchanged
    /\ alerts' = alerts + 1
    /\ textUnchanged
    /\ analyticsUnchanged

\* MediaRecorder.stop(): a recording recorder stops gathering and queues the task
\* that fires dataavailable and then stop.  (On an inactive recorder stop() throws
\* and the handler ends there; CanStop is false then.)
CanStop(r) == r \in Ids(recorders) /\ recorders[r] = "recording"

\* stopRecording (lines 97-102).  Its button is there while isRecording
\* (389-397); a call made while idle finds its condition false.
stopRecording ==
    /\ Idle
    /\ IF mediaRecorderRef # 0 /\ isRecording /\ CanStop(mediaRecorderRef)
       THEN /\ recorders' = [recorders EXCEPT ![mediaRecorderRef] = "stopping"]
            /\ isRecording' = FALSE
       ELSE UNCHANGED <<recorders, isRecording>>
    /\ UNCHANGED <<messages, isProcessing, lastMessageRef, origin, delivered,
                   mediaRecorderRef, audioChunksRef, acquiring, audioReqs, cancelledRecs>>
    /\ capturedUnchanged
    /\ alertsUnchanged
    /\ textUnchanged
    /\ analyticsUnchanged

\* cancelRecording (lines 104-111); its button is there while isRecording (353-362).
cancelRecording ==
    /\ Idle
    /\ isRecording
    /\ IF mediaRecorderRef # 0 /\ isRecording
       THEN /\ audioChunksRef' = <<>>
            /\ IF CanStop(mediaRecorderRef)
               THEN /\ recorders' = [recorders EXCEPT ![mediaRecorderRef] = "stopping"]
                    /\ isRecording' = FALSE
                    /\ cancelledRecs' = cancelledRecs \cup {mediaRecorderRef}
               ELSE UNCHANGED <<recorders, isRecording, cancelledRecs>>
       ELSE UNCHANGED <<audioChunksRef, recorders, isRecording, cancelledRecs>>
    /\ UNCHANGED <<messages, isProcessing, lastMessageRef, origin, delivered,
                   mediaRecorderRef, acquiring, audioReqs>>
    /\ capturedUnchanged
    /\ alertsUnchanged
    /\ textUnchanged
    /\ analyticsUnchanged

\* ondataavailable as it would be if it kept nothing.
ondataavailableDrop(chunks, blob) == chunks

\* mediaRecorder.ondataavailable (lines 63-65)
ondataavailable(chunks, blob) ==
    IF blob.size > 0 THEN Append(chunks, blob) ELSE chunks

\* The task a stopped recorder queued: dataavailable with everything it captured
\* (start() was called without a timeslice, so this is the only dataavailable),
\* then stop, whose handler (lines 67-87) runs sendAudioToWebhook up to its fetch
\* (113-123).
recorderStopped(r, size) ==
    /\ Idle
    /\ r \in Ids(recorders)
    /\ recorders[r] = "stopping"
    /\ recorders' = [recorders EXCEPT ![r] = "inactive"]
    /\ captured' = IF size > 0 THEN captured \cup {r} ELSE captured
    /\ LET chunks == ondataavailable(audioChunksRef, [rec |-> r, size |-> size])
       IN  /\ audioChunksRef' = chunks
           /\ IF Len(chunks) = 0
              THEN UNCHANGED <<messages, origin, isProcessing, audioReqs>>
              ELSE /\ messages' = Append(messages, AudioMessage(chunks))
                   /\ origin' = Append(origin, [by |-> "audio", id |-> r])
                   /\ isProcessing' = TRUE
                   /\ audioReqs' = Append(audioReqs,
                                          [status |-> "pending", payload |-> chunks, by |-> r])
    /\ UNCHANGED <<lastMessageRef, delivered, isRecording, mediaRecorderRef, acquiring,
                   cancelledRecs>>
    /\ alertsUnchanged
    /\ textUnchanged
    /\ analyticsUnchanged

\* The audio fetch resolved and its body parsed (lines 124-126), then finally (129-131).
sendAudioResolved(q, d) ==
    /\ Idle
    /\ q \in PendingAudio
    /\ Deliver(aiResponseOf(d), [by |-> "audioreply", id |-> q], TRUE)
    /\ audioReqs' = [audioReqs EXCEPT ![q].status = "settled"]
    /\ UNCHANGED <<isRecording, mediaRecorderRef, audioChunksRef, acquiring, recorders,
                   cancelledRecs>>
    /\ capturedUnchanged
    /\ alertsUnchanged
    /\ textUnchanged
    /\ analyticsUnchanged

\* The failed upload as it would be without the finally of sendAudioToWebhook.
sendAudioFailedNoFinally(q) ==
    /\ Idle
    /\ q \in PendingAudio
    /\ audioReqs' = [audioReqs EXCEPT ![q].status = "settled"]
    /\ UNCHANGED <<messages, isProcessing, lastMessageRef, origin, delivered, isRecording,
                   mediaRecorderRef, audioChunksRef, acquiring, recorders, cancelledRecs>>
    /\ capturedUnchanged
    /\ alertsUnchanged
    /\ textUnchanged
    /\ analyticsUnchanged

\* The audio fetch or json() threw: catch (127-128), then finally (129-131).
sendAudioFailed(q) ==
    /\ Idle
    /\ q \in PendingAudio
    /\ isProcessing' = FALSE
    /\ audioReqs' = [audioReqs EXCEPT ![q].status = "settled"]
    /\ UNCHANGED <<messages, lastMessageRef, origin, delivered, isRecording,
                   mediaRecorderRef, audioChunksRef, acquiring, recorders, cancelledRecs>>
    /\ capturedUnchanged
    /\ alertsUnchanged
    /\ textUnchanged
    /\ analyticsUnchanged

----------------------------------------------------------------------------
\* The chat page

AnalyticsIdle ==
    /\ data = <<>>
    /\ loading = TRUE
    /\ error = <<>>
    /\ fetching = 0
    /\ mounted = FALSE
    /\ fetchLog = <<>>
    /\ result = <<>>

ChatInit ==
    /\ messages = <<>>
    /\ input = <<>>
    /\ isProcessing = FALSE
    /\ isRecording = FALSE
    /\ lastMessageRef = <<>>
    /\ mediaRecorderRef = 0
    /\ audioChunksRef = <<>>
    /\ abortControllerRef = 0
    /\ reqs = <<>>
    /\ microtasks = <<>>
    /\ acquiring = 0
    /\ recorders = <<>>
    /\ audioReqs = <<>>
    /\ origin = <<>>
    /\ delivered = <<>>
    /\ submitted = <<>>
    /\ stopped = {}
    /\ lastStop = <<>>
    /\ cancelledRecs = {}
    /\ captured = {}
    /\ polls = 0
    /\ pollFailures = 0
    /\ alerts = 0

Init == ChatInit /\ AnalyticsIdle

\* The steps of the session controller when the user types the texts T and the
\* remote answers with the bodies D.
TextNext(T, D) ==
    \/ \E t \in T : sendMessage(t)
    \/ \E id \in Ids(reqs), ok \in BOOLEAN, d \in D : sendMessageResolved(id, ok, d)
    \/ \E id \in Ids(reqs) : sendMessageFailed(id)
    \/ \E at \in Awaits : stopGeneration(at)
    \/ sendMessageAborted
    \/ \E id \in Ids(reqs) : sendMessageAbortedLater(id)
    \/ \E d \in D : pollForUpdates(d)
    \/ pollForUpdatesFailed

\* The steps of the audio capture adapter and of the uploads it starts, when the
\* remote answers with the bodies D.
RecNextOf(D) ==
    \/ startRecording
    \/ startRecordingAcquired
    \/ startRecordingDenied
    \/ stopRecording
    \/ cancelRecording
    \/ \E r \in Ids(recorders), size \in BlobSizes : recorderStopped(r, size)
    \/ \E q \in Ids(audioReqs), d \in D : sendAudioResolved(q, d)
    \/ \E q \in Ids(audioReqs) : sendAudioFailed(q)

RecNext == RecNextOf(RemoteData)

\* The session controller: text sends, their cancellation, and the poll, with
\* every reply text and one text the user sends (besides the empty and the
\* whitespace-only input).
Next == TextNext(Texts \ {<<"b", " ">>}, RemoteData)

Spec == Init /\ [][Next]_vars

\* The session controller with every input text and one reply text.
OrderNext == TextNext(Texts, RemoteDataOf({<<"A">>}))

SpecOrder == Init /\ [][OrderNext]_vars

\* The audio capture adapter with the upload of what it finalizes.
SpecRec == Init /\ [][RecNext]_vars

\* What the user and the poll timer have started so far: sends, recordings, polls.
Started == Len(reqs) + acquiring + Len(recorders) + alerts + polls + pollFailures

\* The bodies the remote answers with on the whole page: an object with a reply
\* text or without one, the text endpoints with one text and the audio endpoint
\* with another.
ChatData == [kind : {"object"}, output : {<<"A">>, <<>>}]

AudioData == [kind : {"object"}, output : {<<"B">>, <<>>}]

\* The whole chat page: one input text, recordings that capture data, MaxStarted
\* sends, recordings and polls in all, in every order and with every outcome.
ChatNext ==
    \/ Started < MaxStarted /\ sendMessage(<<"a">>)
    \/ \E id \in Ids(reqs), ok \in BOOLEAN, d \in ChatData :
          sendMessageResolved(id, ok, d)
    \/ \E id \in Ids(reqs) : sendMessageFailed(id)
    \/ \E at \in Awaits : stopGeneration(at)
    \/ sendMessageAborted
    \/ \E id \in Ids(reqs) : sendMessageAbortedLater(id)
    \/ Started < MaxStarted /\ (\E d \in ChatData : pollForUpdates(d))
    \/ Started < MaxStarted /\ pollForUpdatesFailed
    \/ Started < MaxStarted /\ startRecording
    \/ startRecordingAcquired
    \/ startRecordingDenied
    \/ stopRecording
    \/ cancelRecording
    \/ \E r \in Ids(recorders) : recorderStopped(r, 1)
    \/ \E q \in Ids(audioReqs), d \in AudioData : sendAudioResolved(q, d)
    \/ \E q \in Ids(audioReqs) : sendAudioFailed(q)

SpecChat == Init /\ [][ChatNext]_vars

----------------------------------------------------------------------------
\* src/unnamed/part_000: the chat variant that surfaces send errors.  Its state
\* has the shape of the current controller's and is held in the same variables:
\* `isProcessing` holds its isLoading (line 25); it has no abort handle.  Its
\* Messages have a role and a content only (line 21).

PlainMessage(role, content) == [role |-> role, content |-> content]

ErrorMessageText == <<"Error connecting to AI agent.">>

\* catch (error) { setMessages((prev) => [...prev, error Message]) } (lines 88-93)
sendCatch_part000(msgs) == Append(msgs, PlainMessage("ai", ErrorMessageText))

\* sendMessage up to its await (lines 64-77).  The input box is disabled while
\* isLoading (211) and the send button while isLoading or the input is empty
\* (224), so the call is made only while nothing is loading.
sendMessage_part000(t) ==
    /\ ~isProcessing
    /\ IF Trim(t) = <<>>
       THEN /\ input' = t
            /\ UNCHANGED <<messages, isProcessing, reqs, origin, submitted>>
       ELSE /\ Len(reqs) < MaxSends
            /\ reqs' = Append(reqs, "pending")
            /\ messages' = Append(messages, PlainMessage("user", t))
            /\ origin' = Append(origin, [by |-> "send", id |-> Len(reqs) + 1])
            /\ submitted' = Append(submitted, t)
            /\ input' = <<>>
            /\ isProcessing' = TRUE
    /\ UNCHANGED <<lastMessageRef, abortControllerRef, microtasks, delivered, stopped,
                   lastStop, polls, pollFailures>>
    /\ recUnchanged
    /\ analyticsUnchanged

\* The fetch resolved with a response of status `ok` (2xx) or not and its body
\* parsed (lines 79-87), then finally (94-96).  response.ok is never read, and
\* the reply is appended without a look at lastMessageRef.
sendMessageResolved_part000(id, ok, d) ==
    /\ reqs[id] = "pending"
    /\ reqs' = [reqs EXCEPT ![id] = "settled"]
    /\ LET aiResponse == aiResponseOf(d)
       IN  IF aiResponse # <<>>
           THEN /\ messages' = Append(messages, PlainMessage("ai", aiResponse))
                /\ lastMessageRef' = <<aiResponse>>
                /\ origin' = Append(origin, [by |-> "reply", id |-> id])
                /\ delivered' = Append(delivered,
                                       [content |-> aiResponse, via |-> "reply",
                                        at |-> Len(messages) + 1])
           ELSE UNCHANGED <<messages, lastMessageRef, origin, delivered>>
    /\ isProcessing' = FALSE
    /\ UNCHANGED <<input, abortControllerRef, microtasks, submitted, stopped, lastStop,
                   polls, pollFailures>>
    /\ recUnchanged
    /\ analyticsUnchanged

\* fetch or response.json() threw: catch (lines 88-93), then finally (94-96).
sendMessageFailed_part000(id) ==
    /\ reqs[id] = "pending"
    /\ reqs' = [reqs EXCEPT ![id] = "settled"]
    /\ messages' = sendCatch_part000(messages)
    /\ origin' = IF Len(messages') > Len(messages)
                 THEN Append(origin, [by |-> "error", id |-> id])
                 ELSE origin
    /\ isProcessing' = FALSE
    /\ UNCHANGED <<input, lastMessageRef, abortControllerRef, microtasks, delivered,
                   submitted, stopped, lastStop, polls, pollFailures>>
    /\ recUnchanged
    /\ analyticsUnchanged

\* pollForUpdates got an ok response with a parseable body (lines 35-50): a reply
\* is appended unless it is the last-seen reply; isLoading is not touched.
pollForUpdates_part000(d) ==
    /\ polls + pollFailures < MaxPolls
    /\ polls' = polls + 1
    /\ LET newMsg == pollOutputOf(d)
           fresh == newMsg # <<>> /\ lastMessageRef # <<newMsg>>
       IN  /\ IF fresh
              THEN /\ messages' = Append(messages, PlainMessage("ai", newMsg))
                   /\ lastMessageRef' = <<newMsg>>
                   /\ origin' = Append(origin,
                                       [by |-> "poll", id |-> polls + pollFailures + 1])
              ELSE UNCHANGED <<messages, lastMessageRef, origin>>
           /\ delivered' =
                 IF newMsg # <<>>
                 THEN Append(delivered,
                             [content |-> newMsg, via |-> "poll",
                              at |-> IF fresh THEN Len(messages) + 1 ELSE 0])
                 ELSE delivered
    /\ UNCHANGED <<input, isProcessing, abortControllerRef, reqs, microtasks, submitted,
                   stopped, lastStop, pollFailures>>
    /\ recUnchanged
    /\ analyticsUnchanged

\* pollForUpdates got a non-ok response (36), or fetch or json() threw (51-54).
pollForUpdatesFailed_part000 ==
    /\ polls + pollFailures < MaxPolls
    /\ pollFailures' = pollFailures + 1
    /\ UNCHANGED <<messages, input, isProcessing, lastMessageRef, abortControllerRef,
                   reqs, microtasks, origin, delivered, submitted, stopped, lastStop,
                   polls>>
    /\ recUnchanged
    /\ analyticsUnchanged

\* The text sends and the poll of the variant.
Part000Next ==
    \/ \E t \in Texts \ {<<"b", " ">>} : sendMessage_part000(t)
    \/ \E id \in Ids(reqs), ok \in BOOLEAN, d \in RemoteData :
          sendMessageResolved_part000(id, ok, d)
    \/ \E id \in Ids(reqs) : sendMessageFailed_part000(id)
    \/ \E d \in RemoteData : pollForUpdates_part000(d)
    \/ pollForUpdatesFailed_part000

SpecPart000 == Init /\ [][Part000Next]_vars

----------------------------------------------------------------------------
\* app/page.tsx: AnalyticsPage

Hours == {"09", "10", "11"}

HourEntries == [hour : Hours, count : 0..MaxCount]

SeqsUpTo(S, n) == UNION { [1..k -> S] : k \in 0..n }

\* The error text of line 71; <<>> is the empty string of line 59.
ErrorText == <<"Could not load analytics data. Ensure n8n workflow is active.">>

\* The snapshots the analytics endpoint answers with in the page model.
SnapshotA ==
    [messagesPerHour |-> <<[hour |-> "09", count |-> 1], [hour |-> "10", count |-> 2],
                           [hour |-> "10", count |-> 2]>>,
     toolUsage |-> <<[tool |-> "x", count |-> 2], [tool |-> "x", count |-> 3],
                     [tool |-> "", count |-> 1]>>]

SnapshotB ==
    [messagesPerHour |-> <<>>, toolUsage |-> <<>>]

SnapshotC ==
    [messagesPerHour |-> <<[hour |-> "11", count |-> 1]>>,
     toolUsage |-> <<[tool |-> "X", count |-> 1]>>]

FetchSnapshots == {SnapshotA, SnapshotB, SnapshotC}

\* item.tool || "Unknown": an entry without a tool field reads as undefined,
\* which is falsy like the empty string.
toolName(item) ==
    IF "tool" \notin DOMAIN item THEN "Unknown"
    ELSE IF item.tool = "" THEN "Unknown"
    ELSE item.tool

\* toolMap.set as it would be if it stored the count of the entry instead of
\* adding it to the count already there.
toolMapSetOverwrite(map, item) ==
    IF \E i \in 1..Len(map) : map[i].tool = toolName(item)
    THEN [i \in 1..Len(map) |->
             IF map[i].tool = toolName(item)
             THEN [tool |-> map[i].tool, count |-> item.count]
             ELSE map[i]]
    ELSE Append(map, [tool |-> toolName(item), count |-> item.count])

\* toolMap.set(name, (toolMap.get(name) || 0) + item.count): a Map keeps its keys
\* in the order of their first insertion.
toolMapSet(map, item) ==
    IF \E i \in 1..Len(map) : map[i].tool = toolName(item)
    THEN [i \in 1..Len(map) |->
             IF map[i].tool = toolName(item)
             THEN [tool |-> map[i].tool, count |-> map[i].count + item.count]
             ELSE map[i]]
    ELSE Append(map, [tool |-> toolName(item), count |-> item.count])

\* data.toolUsage.forEach(...) then Array.from(toolMap.entries()) (lines 87-96)
RECURSIVE aggregatedTools(_, _)
aggregatedTools(map, items) ==
    IF items = <<>> THEN map
    ELSE aggregatedTools(toolMapSet(map, Head(items)), Tail(items))

\* data.messagesPerHour.reduce((acc, curr) => acc + curr.count, 0) (lines 99-102)
RECURSIVE totalMessages(_, _)
totalMessages(acc, items) ==
    IF items = <<>> THEN acc
    ELSE totalMessages(acc + Head(items).count, Tail(items))

\* The reducer as it would be if it kept the earlier entry on a tie.
peakStepKeepFirst(prev, current) ==
    IF prev.count >= current.count THEN prev ELSE current

\* (prev, current) => (prev.count > current.count ? prev : current) (line 106)
peakStep(prev, current) ==
    IF prev.count > current.count THEN prev ELSE current

\* data.messagesPerHour.reduce(peakStep, { hour: "N/A", count: 0 }) (lines 105-108)
RECURSIVE peakHourObj(_, _)
peakHourObj(prev, items) ==
    IF items = <<>> THEN prev
    ELSE peakHourObj(peakStep(prev, Head(items)), Tail(items))

\* processedData (lines 83-116): <<>> is null
processedData(d) ==
    IF d = <<>> THEN <<>>
    ELSE <<[messagesPerHour |-> d[1].messagesPerHour,
            toolUsage |-> aggregatedTools(<<>>, d[1].toolUsage),
            totalMessages |-> totalMessages(0, d[1].messagesPerHour),
            peakHour |-> peakHourObj([hour |-> "N/A", count |-> 0],
                                     d[1].messagesPerHour).hour]>>

\* What the page renders (lines 153, 161, 172)
ErrorShown == error # <<>>

SkeletonShown == loading /\ data = <<>>

DashboardShown == ~loading /\ processedData(data) # <<>>

chatUnchanged == UNCHANGED chatVars

\* fetchData up to its await (lines 61-65)
fetchDataStart ==
    /\ Len(fetchLog) + fetching < MaxFetches
    /\ loading' = TRUE
    /\ error' = <<>>
    /\ fetching' = fetching + 1
    /\ UNCHANGED <<data, fetchLog, result>>

\* useEffect(() => { fetchData(); }, []) (lines 77-79)
mountEffect ==
    /\ ~mounted
    /\ mounted' = TRUE
    /\ fetchDataStart
    /\ chatUnchanged

\* The Refresh Data button (lines 140-149): disabled while loading
refresh ==
    /\ mounted
    /\ ~loading
    /\ fetchDataStart
    /\ UNCHANGED mounted
    /\ chatUnchanged

\* res.ok and a parsed body (lines 66-68), then finally (72-74)
fetchDataResolved(json) ==
    /\ fetching > 0
    /\ fetching' = fetching - 1
    /\ data' = <<json>>
    /\ loading' = FALSE
    /\ fetchLog' = Append(fetchLog, "ok")
    /\ UNCHANGED <<error, mounted, result>>
    /\ chatUnchanged

\* fetch threw, !res.ok, or json() threw: catch (69-71), then finally (72-74)
fetchDataFailed ==
    /\ fetching > 0
    /\ fetching' = fetching - 1
    /\ error' = ErrorText
    /\ loading' = FALSE
    /\ fetchLog' = Append(fetchLog, "failed")
    /\ UNCHANGED <<data, mounted, result>>
    /\ chatUnchanged

AnalyticsNext ==
    \/ mountEffect
    \/ refresh
    \/ \E json \in FetchSnapshots : fetchDataResolved(json)
    \/ fetchDataFailed

\* The analytics page: mount, refresh, and the outcomes of its fetches.
SpecAnalytics == Init /\ [][AnalyticsNext]_vars

\* The derivation of processedData over every snapshot with up to MaxHours
\* hourly entries: the snapshot is the input, `result` the value derived.
PeakInit ==
    /\ ChatInit
    /\ data \in { <<[messagesPerHour |-> h, toolUsage |-> <<>>]>> :
                     h \in SeqsUpTo(HourEntries, MaxHours) }
    /\ loading = FALSE
    /\ error = <<>>
    /\ fetching = 0
    /\ mounted = TRUE
    /\ fetchLog = <<"ok">>
    /\ result = <<>>

derive ==
    /\ result = <<>>
    /\ result' = processedData(data)
    /\ UNCHANGED <<data, loading, error, fetching, mounted, fetchLog>>
    /\ chatUnchanged

SpecPeak == PeakInit /\ [][derive]_vars

\* Tool names of the snapshots: two that differ in case only, the empty name,
\* and the label itself.
ToolNames == {"x", "X", "", "Unknown"}

\* Tool usage entries, with a name or without the field.
ToolEntries == [tool : ToolNames, count : 1..MaxCount] \cup [count : 1..MaxCount]

\* The derivation of processedData over every snapshot with up to MaxTools
\* tool usage entries.
ToolsInit ==
    /\ ChatInit
    /\ data \in { <<[messagesPerHour |-> <<>>, toolUsage |-> t]>> :
                     t \in SeqsUpTo(ToolEntries, MaxTools) }
    /\ loading = FALSE
    /\ error = <<>>
    /\ fetching = 0
    /\ mounted = TRUE
    /\ fetchLog = <<"ok">>
    /\ result = <<>>

SpecTools == ToolsInit /\ [][derive]_vars

----------------------------------------------------------------------------
\* Properties of the session controller (Spec)

IsAi(m) == m.role = "ai"

IsUserText(m) == m.role = "user" /\ m.type = "text"

ContentsOf(msgs) == [i \in 1..Len(msgs) |-> msgs[i].content]

\* The deliveries up to i that continue the run of equal replies ending at i.
RunEndingAt(i) ==
    { j \in 1..i : \A k \in j..i : delivered[k].content = delivered[i].content }

\* C1: when a reply equal to the reply delivered just before it is delivered
\* (by the direct path, the poll or the audio path, in any order of arrival),
\* the run of equal deliveries has appended exactly one assistant Message, with
\* that content; and no assistant Message is in the log but those deliveries
\* appended.
C1_ConsecutiveDuplicateAppendedOnce ==
    /\ \A i \in 2..Len(delivered) :
          delivered[i].content = delivered[i - 1].content =>
              LET appendedInRun == { j \in RunEndingAt(i) : delivered[j].at # 0 }
              IN  /\ Cardinality(appendedInRun) = 1
                  /\ \A j \in appendedInRun :
                        /\ delivered[j].at \in 1..Len(messages)
                        /\ messages[delivered[j].at] = TextMessage("ai", delivered[i].content)
    /\ Len(SelectSeq(messages, IsAi))
          = Cardinality({ j \in 1..Len(delivered) : delivered[j].at # 0 })

\* C1 witness: a direct reply followed at once by the same reply from the poll,
\* and elsewhere in the same run two equal polled replies in a row.
C1_Witness ==
    /\ \E i \in 2..Len(delivered) :
          /\ delivered[i].content = delivered[i - 1].content
          /\ delivered[i - 1].via = "reply"
          /\ delivered[i].via = "poll"
    /\ \E i \in 2..Len(delivered) :
          /\ delivered[i].content = delivered[i - 1].content
          /\ delivered[i - 1].via = "poll"
          /\ delivered[i].via = "poll"

\* C2: the reply of a text request that was in flight when a cancel took effect
\* is never appended to the log.
C2_CancelledReplyNeverAppended ==
    \A i \in 1..Len(origin) :
        origin[i].by = "reply" => origin[i].id \notin stopped

\* C3: at most one text request is in flight.
C3_AtMostOneTextRequestInFlight ==
    Cardinality(PendingText) <= 1

\* C4: a stopGeneration call made while text requests are in flight aborts
\* them, leaves isProcessing false, and appends no Message.
C4_CancelAbortsInFlightRequest ==
    lastStop # <<>> =>
        (lastStop[1].pending # {} =>
            /\ lastStop[1].pending \subseteq lastStop[1].aborted
            /\ ~lastStop[1].processing
            /\ \A i \in 1..Len(origin) : origin[i].by # "cancel")

\* C9: three deliveries in a row A, B, A with B different from A, the first of
\* them not itself a repeat of the delivery before it, append three assistant
\* Messages A, B, A, in that order, whichever path delivers each.
C9_WeakDedupAppendsABA ==
    \A i \in 1..(Len(delivered) - 2) :
        ( /\ delivered[i + 2].content = delivered[i].content
          /\ delivered[i + 1].content # delivered[i].content
          /\ (i > 1 => delivered[i - 1].content # delivered[i].content) )
        =>
        /\ 0 < delivered[i].at
        /\ delivered[i].at < delivered[i + 1].at
        /\ delivered[i + 1].at < delivered[i + 2].at
        /\ delivered[i + 2].at <= Len(messages)
        /\ \A k \in 0..2 :
              messages[delivered[i + k].at] = TextMessage("ai", delivered[i + k].content)

\* C9 witness: A, B, A were delivered in a row, by the direct path and by the poll.
C9_Witness ==
    \E i \in 1..(Len(delivered) - 2) :
        /\ delivered[i + 2].content = delivered[i].content
        /\ delivered[i + 1].content # delivered[i].content
        /\ (i > 1 => delivered[i - 1].content # delivered[i].content)
        /\ \E k \in 0..2 : delivered[i + k].via = "reply"
        /\ \E k \in 0..2 : delivered[i + k].via = "poll"

\* C10: the user text Messages of the log are, in order, the inputs of the
\* accepted sends, one Message per send.
C10_UserMessagesInSubmissionOrder ==
    ContentsOf(SelectSeq(messages, IsUserText)) = submitted

\* C10 witness: two different texts were sent, a reply was appended between
\* their Messages, and the second request was cancelled.
C10_Witness ==
    /\ Len(submitted) = 2
    /\ submitted[1] # submitted[2]
    /\ \E h, i, j \in 1..Len(messages) :
          /\ h < i /\ i < j
          /\ IsUserText(messages[h]) /\ IsAi(messages[i]) /\ IsUserText(messages[j])
    /\ 2 \in stopped


\* s is a prefix of t.
IsPrefix(s, t) == Len(s) <= Len(t) /\ SubSeq(t, 1, Len(s)) = s

\* C12: a failed poll leaves the log, the last-seen reply and the awaiting-reply
\* flag as they were, and after a failed poll the next poll can still deliver
\* any body.
C12_PollFailureIsSwallowed ==
    /\ [][pollFailures' # pollFailures =>
              /\ messages' = messages
              /\ lastMessageRef' = lastMessageRef
              /\ isProcessing' = isProcessing]_vars
    /\ [](( /\ pollFailures > 0
            /\ polls + pollFailures < MaxPolls
            /\ Idle )
          => \A d \in RemoteData : ENABLED pollForUpdates(d))

\* C12 witness: the first poll failed, and the second poll delivered a reply
\* that was appended right after a user Message.
C12_Witness ==
    /\ pollFailures = 1
    /\ \E i \in 1..Len(origin) :
          /\ origin[i].by = "poll"
          /\ origin[i].id = 2
          /\ i > 1
          /\ IsUserText(messages[i - 1])

\* C13: a poll that delivers a non-empty reply different from the last-seen
\* reply appends one assistant Message with that content, makes it the last-seen
\* reply and leaves the awaiting-reply flag false; a poll that delivers the
\* last-seen reply leaves the log as it was.
C13_PolledReplyAppendedUnlessSeen ==
    [][(polls' # polls /\ Len(delivered') > Len(delivered)) =>
          LET content == delivered'[Len(delivered')].content
          IN  IF lastMessageRef # <<content>>
              THEN /\ messages' = Append(messages, TextMessage("ai", content))
                   /\ lastMessageRef' = <<content>>
                   /\ ~isProcessing'
              ELSE messages' = messages]_vars

\* C13 witness: a polled reply was appended while a text request was still in
\* flight, leaving the flag false, and another polled reply was suppressed.
C13_Witness ==
    /\ PendingText # {}
    /\ ~isProcessing
    /\ Len(delivered) >= 2
    /\ delivered[Len(delivered) - 1].via = "poll"
    /\ delivered[Len(delivered) - 1].at # 0
    /\ delivered[Len(delivered)].via = "poll"
    /\ delivered[Len(delivered)].at = 0

\* C14: the continuation of an aborted text request changes neither the log,
\* nor the last-seen reply, nor the awaiting-reply flag, nor a handle that holds
\* the controller of another request.
C14_AbortedContinuationChangesNothing ==
    [][\A id \in Ids(reqs) :
          (reqs[id] = "aborted" /\ reqs'[id] = "settled") =>
              /\ messages' = messages
              /\ lastMessageRef' = lastMessageRef
              /\ isProcessing' = isProcessing
              /\ (abortControllerRef # id => abortControllerRef' = abortControllerRef)]_vars

\* C15: the handle holds the controller of every text request in flight, and
\* holds a controller only while its request has not finished.
C15_HandleHoldsInFlightRequest ==
    /\ \A i \in PendingText : abortControllerRef = i
    /\ abortControllerRef # 0 => reqs[abortControllerRef] \in {"pending", "aborted"}

\* C17: a text send that fails, by a throwing fetch or json() or by a response
\* whose status is not 2xx, appends nothing, leaves the last-seen reply as it
\* was and leaves the awaiting-reply flag false.
C17_FailedSendAppendsNothing ==
    [][\A id \in Ids(reqs) :
          (sendMessageFailed(id) \/ \E d \in RemoteData : sendMessageResolved(id, FALSE, d))
              => /\ messages' = messages
                 /\ lastMessageRef' = lastMessageRef
                 /\ ~isProcessing']_vars


\* C22: a send leaves the last-seen reply as it was, and a reply equal to the
\* reply delivered before it is suppressed, whatever user Messages were
\* appended between the two deliveries.
C22_RepeatedReplySuppressedAcrossSends ==
    /\ [][Len(submitted') > Len(submitted) => lastMessageRef' = lastMessageRef]_vars
    /\ [](\A i \in 2..Len(delivered) :
             delivered[i].content = delivered[i - 1].content => delivered[i].at = 0)

\* C22 witness: two sends were each answered directly with the same reply; the
\* log is user Message, reply, user Message, and the second reply is not in it.
C22_Witness ==
    /\ Len(reqs) = 2
    /\ \A id \in Ids(reqs) : reqs[id] = "settled"
    /\ Len(delivered) = 2
    /\ delivered[1].via = "reply" /\ delivered[2].via = "reply"
    /\ delivered[1].content = delivered[2].content
    /\ delivered[1].at = 2 /\ delivered[2].at = 0
    /\ Len(messages) = 3
    /\ IsUserText(messages[1]) /\ IsAi(messages[2]) /\ IsUserText(messages[3])

\* The input is empty or whitespace only.
IsBlank(t) == \A i \in 1..Len(t) : t[i] = " "

\* C25: a sendMessage call with empty or whitespace-only input appends
\* nothing, issues no request, and leaves the awaiting-reply flag, the
\* last-seen reply and the handle as they were.
C25_BlankSendIsNoOp ==
    [][\A t \in Texts :
          (IsBlank(t) /\ sendMessage(t)) =>
              UNCHANGED <<messages, reqs, isProcessing, lastMessageRef,
                          abortControllerRef>>]_vars

\* C25 witness: whitespace was sent while a request was in flight, after a
\* reply had been seen.
C25_Witness ==
    /\ input = <<" ">>
    /\ PendingText # {}
    /\ isProcessing
    /\ abortControllerRef # 0
    /\ lastMessageRef # <<>>

----------------------------------------------------------------------------
\* Properties of the audio capture adapter (SpecRec)

\* C5: nothing is shown or sent for a recording that was cancelled.
C5_CancelledRecordingNotSent ==
    /\ \A q \in Ids(audioReqs) : audioReqs[q].by \notin cancelledRecs
    /\ \A i \in 1..Len(origin) :
          origin[i].by = "audio" => origin[i].id \notin cancelledRecs

\* C6: no transmitted payload holds chunks of two different recordings, and
\* the chunk of every recording that was stopped (not cancelled) with data in
\* it is in a transmitted payload.
C6_NoMergedOrLostChunks ==
    /\ \A q \in Ids(audioReqs) :
          \A k, l \in 1..Len(audioReqs[q].payload) :
              audioReqs[q].payload[k].rec = audioReqs[q].payload[l].rec
    /\ \A r \in captured \ cancelledRecs :
          \E q \in Ids(audioReqs) :
              \E k \in 1..Len(audioReqs[q].payload) : audioReqs[q].payload[k].rec = r


\* The Messages and the uploads a recorder produced.
AudioMessagesOf(r) ==
    { i \in 1..Len(origin) : origin[i].by = "audio" /\ origin[i].id = r }

AudioRequestsOf(r) == { q \in Ids(audioReqs) : audioReqs[q].by = r }

\* C18: every recording ended by stopRecording with data in it has, once its
\* recorder has fired, exactly one audio Message in the log and exactly one
\* request to the audio endpoint, and never more than one of either; a
\* stopRecording call made while recording stops the current recorder and leaves
\* isRecording false; a call made while idle changes nothing.
C18_StopFinalizesOnePayload ==
    /\ [](\A r \in Ids(recorders) :
            /\ Cardinality(AudioMessagesOf(r)) <= 1
            /\ Cardinality(AudioRequestsOf(r)) <= 1
            /\ \A i \in AudioMessagesOf(r) : messages[i].type = "audio"
            /\ (recorders[r] = "inactive" /\ r \in captured /\ r \notin cancelledRecs) =>
                   /\ Cardinality(AudioMessagesOf(r)) = 1
                   /\ Cardinality(AudioRequestsOf(r)) = 1)
    /\ [][(stopRecording /\ isRecording /\ CanStop(mediaRecorderRef)) =>
              /\ ~isRecording'
              /\ recorders'[mediaRecorderRef] = "stopping"]_vars
    /\ [][(stopRecording /\ ~isRecording) => UNCHANGED vars]_vars

\* C18 witness: two recordings were ended by stopRecording with data, each has
\* its Message and its request, and the adapter is idle.
C18_Witness ==
    /\ Len(recorders) = 2
    /\ cancelledRecs = {}
    /\ \A r \in Ids(recorders) :
          /\ recorders[r] = "inactive"
          /\ r \in captured
          /\ Cardinality(AudioMessagesOf(r)) = 1
          /\ Cardinality(AudioRequestsOf(r)) = 1
    /\ ~isRecording

\* C19: a startRecording call whose stream is refused reports it once and
\* changes neither isRecording, nor the chunk buffer, nor the recorder
\* reference, nor the log, nor the requests sent.
C19_DeniedStreamLeavesAdapterIdle ==
    [][(acquiring' < acquiring /\ recorders' = recorders) =>
          /\ alerts' = alerts + 1
          /\ isRecording' = isRecording
          /\ audioChunksRef' = audioChunksRef
          /\ mediaRecorderRef' = mediaRecorderRef
          /\ messages' = messages
          /\ audioReqs' = audioReqs]_vars

\* C19 witness: a stream was refused after an earlier session had left its
\* recorder and its chunks behind, and the adapter is idle.
C19_Witness ==
    /\ alerts > 0
    /\ ~isRecording
    /\ mediaRecorderRef # 0
    /\ audioChunksRef # <<>>
    /\ acquiring = 0

----------------------------------------------------------------------------
\* Properties of the whole chat page (SpecChat)

\* C11: every step leaves the log it found as a prefix of the log it leaves.
C11_LogIsAppendOnly ==
    [][IsPrefix(messages, messages')]_vars

\* C11 witness: the log holds a user text Message, then a reply of the text
\* endpoints, then an audio Message, then the reply to the upload, and a cancel
\* has aborted a request.
C11_Witness ==
    /\ stopped # {}
    /\ \E h, i, j, k \in 1..Len(origin) :
          /\ h < i /\ i < j /\ j < k
          /\ origin[h].by = "send"
          /\ origin[i].by \in {"reply", "poll"}
          /\ origin[j].by = "audio"
          /\ origin[k].by = "audioreply"

\* C16: while a text request is in flight, a step that is neither a cancel, nor
\* a poll, nor the end of a text request leaves the awaiting-reply flag true; so
\* the completion of an audio request does not clear it.
C16_AwaitingReplyHeldWhilePending ==
    [][( /\ isProcessing
         /\ PendingText # {}
         /\ reqs' = reqs
         /\ lastStop' = lastStop
         /\ polls' = polls )
       => isProcessing']_vars

\* The assistant Messages of the log, in order.
AiMessages == SelectSeq(messages, IsAi)

\* C23: the last-seen reply is null exactly when the log holds no assistant
\* Message, otherwise it is the content of the latest assistant Message; and no
\* two assistant Messages that follow each other among the assistant Messages
\* have the same content.
C23_LastSeenIsLatestAssistantMessage ==
    /\ (lastMessageRef = <<>>) <=> (AiMessages = <<>>)
    /\ AiMessages # <<>> => lastMessageRef = <<AiMessages[Len(AiMessages)].content>>
    /\ \A i \in 1..(Len(AiMessages) - 1) :
          AiMessages[i].content # AiMessages[i + 1].content

\* C23 witness: three assistant Messages are in the log, delivered by the
\* direct path or the poll and by the audio path, with user Messages among them.
C23_Witness ==
    /\ Len(AiMessages) = 3
    /\ \E i \in 1..Len(origin) : origin[i].by = "audioreply"
    /\ \E i \in 1..Len(origin) : origin[i].by \in {"reply", "poll"}
    /\ \E i \in 1..Len(messages) : IsUserText(messages[i])

\* C24: when no text request and no audio request is in flight, the
\* awaiting-reply flag is false and the handle is null.
C24_QuiescentMeansIdle ==
    ( /\ \A id \in Ids(reqs) : reqs[id] = "settled"
      /\ PendingAudio = {} )
    => (~isProcessing /\ abortControllerRef = 0)

\* C24 witness: a text request was cancelled and has run its continuation, an
\* upload has finished, and nothing is in flight.
C24_Witness ==
    /\ Len(reqs) >= 1
    /\ \A id \in Ids(reqs) : reqs[id] = "settled"
    /\ stopped # {}
    /\ Len(audioReqs) >= 1
    /\ PendingAudio = {}

----------------------------------------------------------------------------
\* Properties of the variant that surfaces send errors (SpecPart000)

\* A send of the variant that threw appends exactly the error Message and
\* leaves the loading flag false.
Part000ThrownSendSurfacesError ==
    [][\A id \in Ids(reqs) :
          sendMessageFailed_part000(id) =>
              /\ messages' = Append(messages, PlainMessage("ai", ErrorMessageText))
              /\ ~isProcessing']_vars

\* A direct reply of the variant followed by a poll that delivers the same
\* string is in the log once.
Part000DirectThenPollOnce ==
    \A i \in 2..Len(delivered) :
        ( /\ delivered[i - 1].via = "reply"
          /\ delivered[i].via = "poll"
          /\ delivered[i].content = delivered[i - 1].content )
        => (delivered[i - 1].at # 0 /\ delivered[i].at = 0)

\* C21: in the variant, a text send that fails, by a throwing fetch or json()
\* or by a response whose status is not 2xx, appends exactly the error Message
\* (after the user Message of the send, which is in the log already) and leaves
\* the loading flag false; and a direct reply followed by a poll that delivers
\* the same string is in the log once.
C21_FailedSendSurfacesOneError ==
    /\ Part000ThrownSendSurfacesError
    /\ [][\A id \in Ids(reqs) :
              (\E d \in RemoteData : sendMessageResolved_part000(id, FALSE, d))
              => /\ messages' = Append(messages, PlainMessage("ai", ErrorMessageText))
                 /\ ~isProcessing']_vars
    /\ []Part000DirectThenPollOnce

----------------------------------------------------------------------------
\* Properties of the analytics page (SpecAnalytics, SpecPeak)

\* C7: while the error of a failed fetch is shown, no chart or KPI card is.
C7_FailedFetchShowsOnlyError ==
    (ErrorShown /\ ~loading) => ~DashboardShown

Snapshot == data[1].messagesPerHour

MaxCountOf(h) == CHOOSE c \in { h[i].count : i \in 1..Len(h) } :
                     \A i \in 1..Len(h) : h[i].count <= c

MaxIndices(h) == { i \in 1..Len(h) : h[i].count = MaxCountOf(h) }

FirstMaxIndex(h) == CHOOSE i \in MaxIndices(h) : \A j \in MaxIndices(h) : i <= j

LastMaxIndex(h) == CHOOSE i \in MaxIndices(h) : \A j \in MaxIndices(h) : j <= i

\* C8 as stated: the peak hour is the hour of the first entry with the maximum count.
C8_PeakHourIsFirstMax ==
    (result # <<>> /\ Snapshot # <<>>) =>
        result[1].peakHour = Snapshot[FirstMaxIndex(Snapshot)].hour

\* C8 as amended: for every non-empty sequence of non-negative counts the peak
\* hour is the hour of the last entry with the maximum count.
C8_PeakHourIsLastMax ==
    (result # <<>> /\ Snapshot # <<>>) =>
        result[1].peakHour = Snapshot[LastMaxIndex(Snapshot)].hour

\* C8 witness: derived from a snapshot whose maximum is shared by entries of
\* different hours, after an entry with a smaller count.
C8_Witness ==
    /\ result # <<>>
    /\ Len(Snapshot) = 3
    /\ Cardinality(MaxIndices(Snapshot)) = 2
    /\ Snapshot[FirstMaxIndex(Snapshot)].hour # Snapshot[LastMaxIndex(Snapshot)].hour
    /\ result[1].peakHour = Snapshot[LastMaxIndex(Snapshot)].hour

\* The tool usage of the snapshot and its aggregate.
ToolInput == data[1].toolUsage

ToolOutput == result[1].toolUsage

\* The label an entry is counted under: its name, or Unknown when the name is
\* empty or missing.
LabelOf(item) ==
    IF "tool" \in DOMAIN item /\ item.tool # "" THEN item.tool ELSE "Unknown"

RECURSIVE SumCounts(_)
SumCounts(items) ==
    IF items = <<>> THEN 0 ELSE Head(items).count + SumCounts(Tail(items))

WithLabel(items, label) == SelectSeq(items, LAMBDA item : LabelOf(item) = label)

\* C20: the aggregate has one entry for every label of the input and no other,
\* no label twice, the count of an entry is the sum of the counts of the input
\* entries with exactly that label, and the counts of the aggregate add up to
\* the counts of the input.
C20_ToolsGroupedByExactName ==
    result # <<>> =>
        /\ { ToolOutput[i].tool : i \in 1..Len(ToolOutput) }
              = { LabelOf(ToolInput[i]) : i \in 1..Len(ToolInput) }
        /\ \A i, j \in 1..Len(ToolOutput) :
              ToolOutput[i].tool = ToolOutput[j].tool => i = j
        /\ \A i \in 1..Len(ToolOutput) :
              ToolOutput[i].count = SumCounts(WithLabel(ToolInput, ToolOutput[i].tool))
        /\ SumCounts(ToolOutput) = SumCounts(ToolInput)

\* C20 witness: derived from a snapshot with an entry of empty name, an entry
\* without a name and an entry named Unknown, which share one entry of the
\* aggregate.
C20_Witness ==
    /\ result # <<>>
    /\ Len(ToolInput) = 3
    /\ \E i, j, k \in 1..3 :
          /\ "tool" \notin DOMAIN ToolInput[i]
          /\ "tool" \in DOMAIN ToolInput[j] /\ ToolInput[j].tool = ""
          /\ "tool" \in DOMAIN ToolInput[k] /\ ToolInput[k].tool = "Unknown"
    /\ Len(ToolOutput) = 1
    /\ ToolOutput[1].count = SumCounts(ToolInput)

====
